---- MODULE Spec2Model ----
(***************************************************************************)
(* A model of the typed request/response envelope layer of the gemini      *)
(* crate: the JsonString<T> text field (src/src/dto_content.rs), the        *)
(* response envelope decode (src/src/dto_response.rs), the                  *)
(* GenerationConfigBuilder<T> (src/src/dto_request.rs), GeminiConfig        *)
(* (src/src/config.rs) and generate_content (src/src/client.rs).            *)
(*                                                                         *)
(* JSON text is a sequence of one-character strings.  The serde_json       *)
(* writer and reader are modelled on the characters of Chars, the key      *)
(* letters of TestSchema, the digits, the structural characters and the    *)
(* space; no text of the model holds any other character.                  *)
(***************************************************************************)
EXTENDS Integers, Sequences, FiniteSets

VARIABLES
    ty,         \* the type parameter T of the JsonString<T> / envelope at hand
    inner,      \* JsonString::inner of the value being serialized, or None
    wire_str,   \* the string the wire's JSON string literal stands for, or None
    wire,       \* the JSON text of the text field on the wire, or None
    decoded,    \* Result<JsonString<T>, D::Error> of deserialize, or None
    body,       \* a response body: candidates, each a sequence of wire parts
    response,   \* Result<GenerateContentResponse<T>, _> of decoding body
    seen,       \* what the accessors called on a decoded value returned, or None
    value,      \* the value handed to a derived Serialize, or the Part read
    json,       \* a JSON document as the tree of its keys and values, or None
    envelope,   \* Result<GenerateContentResponse<T>, _> of decoding json
    features,   \* the cargo features the crate is compiled with
    builder,    \* the GenerationConfigBuilder<T> threaded through the chain
    calls,      \* builder methods called so far in the chain
    last,       \* the builder method called last, or None
    arg,        \* the argument of that call, or None
    before,     \* the builder that method was called on, or None
    built,      \* Result<GenerationConfig<T>, BuildError> of build(), or None
    configs,    \* the GeminiConfig values constructed, in order
    rendered,   \* their {:?} renderings, in the same order
    req,        \* the GenerateContentRequest<T> handed to generate_content
    pc,         \* where the generate_content call stands
    trace,      \* what the call did on the transport, in order
    http,       \* the response the transport returned, or None
    result      \* Result<GenerateContentResponse<T>, Box<dyn Error>>, or None

wire_vars == <<seen, value, json, envelope>>
codec_vars == <<ty, inner, wire_str, wire, decoded, body, response, wire_vars>>
builder_vars == <<features, builder, calls, last, arg, before, built>>
client_vars == <<configs, rendered, req, pc, trace, http, result>>
vars == <<ty, inner, wire_str, wire, decoded, body, response,
          seen, value, json, envelope,
          features, builder, calls, last, arg, before, built,
          configs, rendered, req, pc, trace, http, result>>

None == [none |-> TRUE]

(***************************************************************************)
(* Bounds of the model.                                                    *)
(***************************************************************************)
MaxStrLen == 2
MaxAge == 11
MaxCandidates == 2
MaxBodyParts == 3
MaxCalls == 2
MaxConfigs == 2

(***************************************************************************)
(* Characters and strings.                                                 *)
(***************************************************************************)
Quote == "\""
Backslash == "\\"
Space == " "
Newline == "\n"

Chars == {"a", "1", "{", Quote, Backslash}

SeqsUpTo(S, n) == UNION {[1..k -> S] : k \in 0..n}

Strs == SeqsUpTo(Chars, MaxStrLen)

DigitChars == <<"0", "1", "2", "3", "4", "5", "6", "7", "8", "9">>

IsDigit(c) == \E d \in 1..10 : DigitChars[d] = c

DigitVal(c) == (CHOOSE d \in 1..10 : DigitChars[d] = c) - 1

(***************************************************************************)
(* The response types.  String is std::string::String; TestSchema is the   *)
(* two-field record of the tests.                                          *)
(***************************************************************************)
TestSchemas == [name : Strs, age : 0..MaxAge]

Values(T) == IF T = "String" THEN Strs ELSE TestSchemas

(***************************************************************************)
(* serde_json's writer.                                                    *)
(***************************************************************************)
EscapeChar(c) ==
    IF c = Quote THEN <<Backslash, Quote>>
    ELSE IF c = Backslash THEN <<Backslash, Backslash>>
    ELSE IF c = Newline THEN <<Backslash, "n">>
    ELSE <<c>>

RECURSIVE EscapeStr(_)
EscapeStr(s) ==
    IF s = <<>> THEN <<>> ELSE EscapeChar(Head(s)) \o EscapeStr(Tail(s))

\* Serializer::serialize_str of serde_json: a JSON string literal.
SerializeStr(s) == <<Quote>> \o EscapeStr(s) \o <<Quote>>

RECURSIVE NatToText(_)
NatToText(n) ==
    IF n < 10 THEN <<DigitChars[n + 1]>>
    ELSE NatToText(n \div 10) \o <<DigitChars[(n % 10) + 1]>>

NameKey == <<"n", "a", "m", "e">>
AgeKey == <<"a", "g", "e">>

\* serde_json::to_string of a TestSchema (derived Serialize, compact writer).
TestSchemaToString(v) ==
    <<"{">> \o SerializeStr(NameKey) \o <<":">> \o SerializeStr(v.name)
        \o <<",">> \o SerializeStr(AgeKey) \o <<":">> \o NatToText(v.age)
        \o <<"}">>

\* serde_json::to_string(&self.inner) for the T at hand.
to_string(T, v) ==
    IF T = "String" THEN SerializeStr(v) ELSE TestSchemaToString(v)

(***************************************************************************)
(* serde_json's reader: a JSON text is read into a value tree              *)
(*   [k |-> "str", s], [k |-> "num", n], [k |-> "obj", m], [k |-> "arr", e]*)
(* or refused.  No text of the model holds a letter of true, false or null *)
(* other than inside a string, a sign, a fraction or an exponent, or a     *)
(* number beyond three digits, so those productions always refuse.         *)
(***************************************************************************)
Fail == [ok |-> FALSE]

Ok(v) == [ok |-> TRUE, val |-> v]

Parsed(v, j) == [ok |-> TRUE, val |-> v, next |-> j]

EndOfText == ""

At(t, i) == IF i <= Len(t) THEN t[i] ELSE EndOfText

RECURSIVE SkipWs(_, _)
SkipWs(t, i) == IF At(t, i) \in {Space, Newline} THEN SkipWs(t, i + 1) ELSE i

\* The characters of a string literal after its opening quote.
RECURSIVE ScanStr(_, _, _)
ScanStr(t, i, acc) ==
    LET c == At(t, i) IN
    IF c = EndOfText THEN Fail
    ELSE IF c = Quote THEN Parsed(acc, i + 1)
    ELSE IF c = Newline THEN Fail
    ELSE IF c = Backslash THEN
        LET d == At(t, i + 1) IN
        IF d \in {Quote, Backslash, "/"} THEN ScanStr(t, i + 2, Append(acc, d))
        ELSE IF d = "n" THEN ScanStr(t, i + 2, Append(acc, Newline))
        ELSE Fail
    ELSE ScanStr(t, i + 1, Append(acc, c))

RECURSIVE ScanDigits(_, _, _)
ScanDigits(t, i, acc) ==
    IF IsDigit(At(t, i)) THEN ScanDigits(t, i + 1, (acc * 10) + DigitVal(At(t, i)))
    ELSE Parsed(acc, i)

\* A number whose first digit is at i: a leading zero stands alone.
ScanNum(t, i) ==
    IF At(t, i) = "0"
    THEN IF IsDigit(At(t, i + 1)) THEN Fail ELSE Parsed(0, i + 1)
    ELSE ScanDigits(t, i, 0)

RECURSIVE ParseValue(_, _)
RECURSIVE ParseMembers(_, _, _)
RECURSIVE ParseElements(_, _, _)

StrValue(r) == IF r.ok THEN Parsed([k |-> "str", s |-> r.val], r.next) ELSE Fail

NumValue(r) == IF r.ok THEN Parsed([k |-> "num", n |-> r.val], r.next) ELSE Fail

\* The value whose first character is at j.
ValueAt(t, j) ==
    IF At(t, j) = Quote THEN StrValue(ScanStr(t, j + 1, <<>>))
    ELSE IF IsDigit(At(t, j)) THEN NumValue(ScanNum(t, j))
    ELSE IF At(t, j) = "{" THEN ParseMembers(t, j + 1, <<>>)
    ELSE IF At(t, j) = "[" THEN ParseElements(t, j + 1, <<>>)
    ELSE Fail

ParseValue(t, i) == ValueAt(t, SkipWs(t, i))

\* After a member: a comma and the next member, or the closing brace.
MembersNext(t, j, more) ==
    IF At(t, j) = "," THEN ParseMembers(t, j + 1, more)
    ELSE IF At(t, j) = "}" THEN Parsed([k |-> "obj", m |-> more], j + 1)
    ELSE Fail

AfterMember(t, key, v, acc) ==
    IF ~v.ok THEN Fail
    ELSE MembersNext(t, SkipWs(t, v.next), Append(acc, [key |-> key, val |-> v.val]))

AfterKeyWs(t, key, j, acc) ==
    IF At(t, j) # ":" THEN Fail
    ELSE AfterMember(t, key, ParseValue(t, j + 1), acc)

AfterKey(t, key, acc) ==
    IF ~key.ok THEN Fail ELSE AfterKeyWs(t, key.val, SkipWs(t, key.next), acc)

MembersAt(t, j, acc) ==
    IF At(t, j) = "}" THEN
        IF acc = <<>> THEN Parsed([k |-> "obj", m |-> acc], j + 1) ELSE Fail
    ELSE IF At(t, j) = Quote THEN AfterKey(t, ScanStr(t, j + 1, <<>>), acc)
    ELSE Fail

\* The members of an object after its opening brace or after a comma.
ParseMembers(t, i, acc) == MembersAt(t, SkipWs(t, i), acc)

\* After an element: a comma and the next element, or the closing bracket.
ElementsNext(t, j, more) ==
    IF At(t, j) = "," THEN ParseElements(t, j + 1, more)
    ELSE IF At(t, j) = "]" THEN Parsed([k |-> "arr", e |-> more], j + 1)
    ELSE Fail

AfterElement(t, v, acc) ==
    IF ~v.ok THEN Fail
    ELSE ElementsNext(t, SkipWs(t, v.next), Append(acc, v.val))

ElementsAt(t, j, acc) ==
    IF At(t, j) = "]" THEN
        IF acc = <<>> THEN Parsed([k |-> "arr", e |-> acc], j + 1) ELSE Fail
    ELSE AfterElement(t, ValueAt(t, j), acc)

\* The elements of an array after its opening bracket or after a comma.
ParseElements(t, i, acc) == ElementsAt(t, SkipWs(t, i), acc)

EndsAt(t, r) == IF r.ok /\ SkipWs(t, r.next) = Len(t) + 1 THEN Ok(r.val) ELSE Fail

\* One JSON value and nothing but white space after it.
ParseDocument(t) == EndsAt(t, ParseValue(t, 1))

\* The derived Deserialize of TestSchema: a map visited member by member
\* (unknown keys ignored, a repeated field refused, both fields required),
\* or a sequence of exactly the two fields.
RECURSIVE VisitMap(_, _, _)
VisitMap(m, name, age) ==
    IF m = <<>> THEN
        IF name = None \/ age = None THEN Fail
        ELSE Ok([name |-> name.some, age |-> age.some])
    ELSE LET f == Head(m) IN
         IF f.key = NameKey THEN
             IF name # None \/ f.val.k # "str" THEN Fail
             ELSE VisitMap(Tail(m), [some |-> f.val.s], age)
         ELSE IF f.key = AgeKey THEN
             IF age # None \/ f.val.k # "num" THEN Fail
             ELSE VisitMap(Tail(m), name, [some |-> f.val.n])
         ELSE VisitMap(Tail(m), name, age)

TestSchemaFromTree(v) ==
    IF v.k = "obj" THEN VisitMap(v.m, None, None)
    ELSE IF v.k = "arr" THEN
        IF Len(v.e) = 2 /\ v.e[1].k = "str" /\ v.e[2].k = "num"
        THEN Ok([name |-> v.e[1].s, age |-> v.e[2].n])
        ELSE Fail
    ELSE Fail

\* String::deserialize on a serde_json reader: a string literal or an error.
StringFromTree(v) == IF v.k = "str" THEN Ok(v.s) ELSE Fail

FromTree(T, r) ==
    IF ~r.ok THEN Fail
    ELSE IF T = "String" THEN StringFromTree(r.val)
    ELSE TestSchemaFromTree(r.val)

\* serde_json::from_str::<T>(s).
from_str(T, s) == FromTree(T, ParseDocument(s))

(***************************************************************************)
(* JsonString<T>.                                                          *)
(***************************************************************************)
IsStringType(T) == T = "String"

\* SerializedStr without the special case for String: every T is JSON-encoded.
SerializedStrAlwaysJson(T, v) == to_string(T, v)

\* The string JsonString::serialize hands to serializer.serialize_str.
SerializedStr(T, v) == IF IsStringType(T) THEN v ELSE to_string(T, v)

\* Serialize without serialize_str: the JSON of the value goes out as it is.
SerializeUnwrapped(T, v) == SerializedStr(T, v)

\* JsonString::serialize into a serde_json writer: the emitted JSON text.
Serialize(T, v) == SerializeStr(SerializedStr(T, v))

\* FromWireStr without the special case for String: every T is parsed.
FromWireStrAlwaysParse(T, s) == IF ~s.ok THEN Fail ELSE from_str(T, s.val)

\* JsonString::deserialize once String::deserialize has returned s.
FromWireStr(T, s) ==
    IF ~s.ok THEN Fail
    ELSE IF IsStringType(T) THEN Ok(s.val)
    ELSE from_str(T, s.val)

\* Deserialize that also takes the JSON of a structured T given directly.
DeserializeDirect(T, w) ==
    IF ~IsStringType(T) /\ from_str(T, w).ok THEN from_str(T, w)
    ELSE FromWireStr(T, from_str("String", w))

\* JsonString::deserialize from a serde_json reader over the text w.
Deserialize(T, w) == FromWireStr(T, from_str("String", w))

(***************************************************************************)
(* The response envelope (GenerateContentResponse<T>, Candidate<T>,        *)
(* Content<T>, Part<T>): the derived Deserialize reads the candidates and  *)
(* their parts in order and returns the first error it meets.              *)
(***************************************************************************)
Some(v) == [some |-> v]

\* TextOf that leaves the text out when it does not decode.
TextOfLenient(r) == IF r.ok THEN Ok([text |-> Some(r.val)]) ELSE Ok([text |-> None])

TextOf(r) == IF r.ok THEN Ok([text |-> Some(r.val)]) ELSE Fail

\* Part<T>: the text key absent, or its JSON text read by JsonString<T>.
DecodePart(T, p) ==
    IF p.text = None THEN Ok([text |-> None])
    ELSE TextOf(Deserialize(T, p.text.some))

\* Push that puts the new element in front.
PushFront(acc, r) == IF acc.ok /\ r.ok THEN Ok(<<r.val>> \o acc.val) ELSE Fail

\* One more element of a Vec: an error ends the sequence.
Push(acc, r) == IF acc.ok /\ r.ok THEN Ok(Append(acc.val, r.val)) ELSE Fail

\* Vec<Part<T>>, part by part in the order of the wire.
RECURSIVE DecodeParts(_, _, _)
DecodeParts(T, ps, acc) ==
    IF ~acc.ok THEN Fail
    ELSE IF ps = <<>> THEN acc
    ELSE DecodeParts(T, Tail(ps), Push(acc, DecodePart(T, Head(ps))))

ContentOf(r) == IF r.ok THEN Ok([content |-> [parts |-> r.val]]) ELSE Fail

\* Candidate<T>, through its Content<T>.
DecodeCandidate(T, c) == ContentOf(DecodeParts(T, c.content.parts, Ok(<<>>)))

\* Vec<Candidate<T>>, candidate by candidate in the order of the wire.
RECURSIVE DecodeCandidates(_, _, _)
DecodeCandidates(T, cs, acc) ==
    IF ~acc.ok THEN Fail
    ELSE IF cs = <<>> THEN acc
    ELSE DecodeCandidates(T, Tail(cs), Push(acc, DecodeCandidate(T, Head(cs))))

ResponseOf(r) == IF r.ok THEN Ok([candidates |-> r.val]) ELSE Fail

\* serde_json::from_str::<GenerateContentResponse<T>>(body).
DecodeResponse(T, b) == ResponseOf(DecodeCandidates(T, b.candidates, Ok(<<>>)))

(***************************************************************************)
(* The accessors of a decoded value.  A JsonString<T> in memory is the T   *)
(* it wraps, so JsonString::inner and into_inner hand out the value held   *)
(* in the text slot.                                                       *)
(***************************************************************************)
\* Part::has_text().
has_text(p) == p.text # None

\* Part::text().
part_text(p) == IF p.text = None THEN None ELSE Some(p.text.some)

\* into_text that gives the text of a part holding nothing but a text.
into_text_alone(p) ==
    IF p.text = None \/ p.inline_data # None THEN None ELSE Some(p.text.some)

\* Part::into_text().
into_text(p) == IF p.text = None THEN None ELSE Some(p.text.some)

\* first_part that looks for the first part holding a text.
first_part_with_text(c) ==
    IF c.parts = <<>> THEN None
    ELSE IF \A i \in DOMAIN c.parts : c.parts[i].text = None THEN Some(Head(c.parts))
    ELSE Some(c.parts[CHOOSE i \in DOMAIN c.parts :
                  /\ c.parts[i].text # None
                  /\ \A j \in 1..(i - 1) : c.parts[j].text = None])

\* Content::first_part().
first_part(c) == IF c.parts = <<>> THEN None ELSE Some(Head(c.parts))

\* Content::first_text().
content_first_text(c) ==
    IF first_part(c) = None THEN None ELSE part_text(first_part(c).some)

\* GenerateContentResponse::first_candidate().
first_candidate(r) == IF r.candidates = <<>> THEN None ELSE Some(Head(r.candidates))

\* GenerateContentResponse::first_content().
first_content(r) ==
    IF first_candidate(r) = None THEN None ELSE Some(first_candidate(r).some.content)

\* GenerateContentResponse::first_text().
first_text(r) ==
    IF first_content(r) = None THEN None ELSE content_first_text(first_content(r).some)

(***************************************************************************)
(* The inputs of the codec.                                                *)
(***************************************************************************)
Types == {"String", "TestSchema"}

DropAt(t, i) == SubSeq(t, 1, i - 1) \o SubSeq(t, i + 1, Len(t))

Deletions(t) == {DropAt(t, i) : i \in 1..Len(t)}

Alice == [name |-> <<"a">>, age |-> 1]

Member(key, text) == SerializeStr(key) \o <<":">> \o text

\* Texts a reader of TestSchema meets besides the writer's own: the fields
\* in the other order, white space, an unknown key, the sequence form, a
\* repeated field, a missing field, a field of the wrong type, trailing
\* characters, a leading zero.
VariantTexts ==
    { <<"{">> \o Member(AgeKey, <<"1">>) \o <<",">>
          \o Member(NameKey, SerializeStr(<<"a">>)) \o <<"}">>,
      <<"{", Space>> \o Member(NameKey, <<Space>> \o SerializeStr(<<"a">>))
          \o <<Space, ",">> \o Member(AgeKey, <<"1">>) \o <<Space, "}", Space>>,
      <<"{">> \o Member(NameKey, SerializeStr(<<"a">>)) \o <<",">>
          \o Member(<<"g">>, <<"[", "{", "}", ",", "1", "]">>) \o <<",">>
          \o Member(AgeKey, <<"1">>) \o <<"}">>,
      <<"[">> \o SerializeStr(<<"a">>) \o <<",", "1", "]">>,
      <<"[">> \o SerializeStr(<<"a">>) \o <<",", "1", ",", "1", "]">>,
      <<"{">> \o Member(NameKey, SerializeStr(<<"a">>)) \o <<",">>
          \o Member(NameKey, SerializeStr(<<"a">>)) \o <<",">>
          \o Member(AgeKey, <<"1">>) \o <<"}">>,
      <<"{">> \o Member(NameKey, SerializeStr(<<"a">>)) \o <<"}">>,
      <<"{">> \o Member(NameKey, <<"1">>) \o <<",">>
          \o Member(AgeKey, <<"1">>) \o <<"}">>,
      TestSchemaToString(Alice) \o <<"1">>,
      <<"{">> \o Member(NameKey, SerializeStr(<<"a">>)) \o <<",">>
          \o Member(AgeKey, <<"0", "1">>) \o <<"}">>,
      <<"{", "}">> }

WrittenTexts == {TestSchemaToString(v) : v \in TestSchemas}

\* The strings a wire string literal may stand for.
WireStrs ==
    Strs \cup WrittenTexts \cup VariantTexts
        \cup UNION {Deletions(t) : t \in WrittenTexts}

\* The documents met on the wire that are not string literals of WireStrs.
RawTexts == Strs \cup WrittenTexts \cup VariantTexts

(***************************************************************************)
(* The codec's operations.                                                 *)
(***************************************************************************)
Idle == inner = None /\ wire = None /\ body = None /\ value = None /\ json = None

\* JsonString::new(v) for a T and a value v of it.
New ==
    /\ Idle
    /\ \E T \in Types : \E v \in Values(T) :
           /\ ty' = Some(T)
           /\ inner' = Some(v)
    /\ UNCHANGED <<wire_str, wire, decoded, body, response, wire_vars, builder_vars, client_vars>>

\* serde_json::to_string(&JsonString<T>).
SerializeJsonString ==
    /\ inner # None
    /\ wire = None
    /\ wire_str' = Some(SerializedStr(ty.some, inner.some))
    /\ wire' = Some(Serialize(ty.some, inner.some))
    /\ UNCHANGED <<ty, inner, decoded, body, response, wire_vars, builder_vars, client_vars>>

\* A text field arrives for a JsonString<T>: the string literal of s.
ReceiveLiteral ==
    /\ Idle
    /\ \E T \in Types : \E s \in WireStrs :
           /\ ty' = Some(T)
           /\ wire_str' = Some(s)
           /\ wire' = Some(SerializeStr(s))
    /\ UNCHANGED <<inner, decoded, body, response, wire_vars, builder_vars, client_vars>>

\* A text field arrives for a JsonString<T>: the document t as it is.
ReceiveRaw ==
    /\ Idle
    /\ \E T \in Types : \E t \in RawTexts :
           /\ ty' = Some(T)
           /\ wire' = Some(t)
    /\ UNCHANGED <<inner, wire_str, decoded, body, response, wire_vars, builder_vars, client_vars>>

\* serde_json::from_str::<JsonString<T>>(wire).
DeserializeJsonString ==
    /\ wire # None
    /\ decoded = None
    /\ decoded' = Some(Deserialize(ty.some, wire.some))
    /\ UNCHANGED <<ty, inner, wire_str, wire, body, response, wire_vars, builder_vars, client_vars>>

Bob == [name |-> <<"a", Quote>>, age |-> 10]

NotJson == <<"{">>

WrongShape == <<"1">>

GoodPartTexts == {SerializeStr(TestSchemaToString(v)) : v \in {Alice, Bob}}

BadPartTexts == {SerializeStr(NotJson), SerializeStr(WrongShape)}

PartOptions ==
    {[text |-> None]} \cup {[text |-> Some(t)] : t \in GoodPartTexts \cup BadPartTexts}

RECURSIVE TotalParts(_)
TotalParts(cs) ==
    IF cs = <<>> THEN 0 ELSE Len(Head(cs).content.parts) + TotalParts(Tail(cs))

\* A response body starts to arrive for a GenerateContentResponse<T>.
ReceiveBody ==
    /\ Idle
    /\ \E T \in Types : ty' = Some(T)
    /\ body' = Some([candidates |-> <<>>])
    /\ UNCHANGED <<inner, wire_str, wire, decoded, response, wire_vars, builder_vars, client_vars>>

\* The body goes on with one more candidate.
ReceiveCandidate ==
    /\ body # None
    /\ response = None
    /\ Len(body.some.candidates) < MaxCandidates
    /\ body' = Some([candidates |->
                         Append(body.some.candidates, [content |-> [parts |-> <<>>]])])
    /\ UNCHANGED <<ty, inner, wire_str, wire, decoded, response, wire_vars, builder_vars, client_vars>>

\* The candidate that arrived last goes on with one more part.
ReceivePart ==
    /\ body # None
    /\ response = None
    /\ body.some.candidates # <<>>
    /\ TotalParts(body.some.candidates) < MaxBodyParts
    /\ \E p \in PartOptions :
           LET cs == body.some.candidates
               n == Len(cs)
           IN  body' = Some([candidates |->
                   [cs EXCEPT ![n] = [content |->
                       [parts |-> Append(cs[n].content.parts, p)]]]])
    /\ UNCHANGED <<ty, inner, wire_str, wire, decoded, response, wire_vars, builder_vars, client_vars>>

\* serde_json::from_str::<GenerateContentResponse<T>>(body).
DecodeBody ==
    /\ body # None
    /\ response = None
    /\ response' = Some(DecodeResponse(ty.some, body.some))
    /\ UNCHANGED <<ty, inner, wire_str, wire, decoded, body, wire_vars, builder_vars, client_vars>>

(***************************************************************************)
(* The derived Serialize and Deserialize of the request and response       *)
(* structs, on JSON documents as trees: an object is the sequence of its   *)
(* members, each a key and a value.  A struct value is the record of its   *)
(* fields; an Option is None or Some(v), a Vec a sequence.                 *)
(***************************************************************************)
\* The structs with their rename_all attribute and their fields in the order
\* of declaration, each <<name, attribute, shape, type>>: the attribute is
\* "skip" for an Option with skip_serializing_if = "Option::is_none",
\* "default" for #[serde(default)] and "required" otherwise; the shape is
\* "vec" for a Vec of the type.  Fields under #[serde(skip)] are left out.
Structs ==
    [
      GenerateContentRequest |-> [rename_all |-> "none", fields |-> <<
            <<"contents", "required", "vec", "Content">>,
            <<"generation_config", "skip", "one", "GenerationConfig">>,
            <<"system_instruction", "skip", "one", "Content">>,
            <<"safety_settings", "skip", "vec", "SafetySetting">>>>],
      GenerationConfig |-> [rename_all |-> "camelCase", fields |-> <<
            <<"stop_sequences", "skip", "vec", "String">>,
            <<"response_mime_type", "skip", "one", "ResponseMimeType">>,
            <<"response_schema", "skip", "one", "Value">>,
            <<"response_json_schema", "skip", "one", "Value">>,
            <<"response_modalities", "skip", "vec", "String">>,
            <<"candidate_count", "skip", "one", "i32">>,
            <<"max_output_tokens", "skip", "one", "i32">>,
            <<"temperature", "skip", "one", "f32">>,
            <<"top_p", "skip", "one", "f32">>,
            <<"top_k", "skip", "one", "i32">>,
            <<"seed", "skip", "one", "i32">>,
            <<"presence_penalty", "skip", "one", "f32">>,
            <<"frequency_penalty", "skip", "one", "f32">>,
            <<"response_logprobs", "skip", "one", "bool">>,
            <<"logprobs", "skip", "one", "i32">>,
            <<"enable_enhanced_civic_answers", "skip", "one", "bool">>,
            <<"speech_config", "skip", "one", "Value">>,
            <<"thinking_config", "skip", "one", "Value">>,
            <<"image_config", "skip", "one", "Value">>,
            <<"media_resolution", "skip", "one", "String">>>>],
      SafetySetting |-> [rename_all |-> "none", fields |-> <<
            <<"category", "required", "one", "String">>,
            <<"threshold", "required", "one", "String">>>>],
      SafetyRating |-> [rename_all |-> "none", fields |-> <<
            <<"category", "required", "one", "String">>,
            <<"probability", "required", "one", "String">>,
            <<"blocked", "default", "one", "bool">>>>],
      Content |-> [rename_all |-> "none", fields |-> <<
            <<"role", "skip", "one", "Role">>,
            <<"parts", "required", "vec", "Part">>>>],
      Part |-> [rename_all |-> "none", fields |-> <<
            <<"text", "skip", "one", "JsonString">>,
            <<"inline_data", "skip", "one", "Blob">>,
            <<"function_call", "skip", "one", "FunctionCall">>,
            <<"function_response", "skip", "one", "FunctionResponse">>,
            <<"file_data", "skip", "one", "FileData">>,
            <<"executable_code", "skip", "one", "ExecutableCode">>,
            <<"code_execution_result", "skip", "one", "CodeExecutionResult">>,
            <<"video_metadata", "skip", "one", "VideoMetadata">>>>],
      Blob |-> [rename_all |-> "none", fields |-> <<
            <<"mime_type", "required", "one", "MimeType">>,
            <<"data", "required", "one", "String">>>>],
      FunctionCall |-> [rename_all |-> "none", fields |-> <<
            <<"name", "required", "one", "String">>,
            <<"args", "skip", "one", "Value">>>>],
      FunctionResponse |-> [rename_all |-> "none", fields |-> <<
            <<"name", "required", "one", "String">>,
            <<"response", "required", "one", "Value">>>>],
      FileData |-> [rename_all |-> "none", fields |-> <<
            <<"mime_type", "skip", "one", "MimeType">>,
            <<"file_uri", "required", "one", "String">>>>],
      ExecutableCode |-> [rename_all |-> "none", fields |-> <<
            <<"language", "required", "one", "String">>,
            <<"code", "required", "one", "String">>>>],
      CodeExecutionResult |-> [rename_all |-> "none", fields |-> <<
            <<"outcome", "required", "one", "String">>,
            <<"output", "skip", "one", "String">>>>],
      VideoMetadata |-> [rename_all |-> "none", fields |-> <<
            <<"start_offset", "skip", "one", "String">>,
            <<"end_offset", "skip", "one", "String">>,
            <<"fps", "skip", "one", "f32">>>>],
      GenerateContentResponse |-> [rename_all |-> "none", fields |-> <<
            <<"candidates", "default", "vec", "Candidate">>,
            <<"prompt_feedback", "skip", "one", "PromptFeedback">>,
            <<"usage_metadata", "skip", "one", "UsageMetadata">>>>],
      Candidate |-> [rename_all |-> "none", fields |-> <<
            <<"content", "required", "one", "Content">>,
            <<"finish_reason", "skip", "one", "String">>,
            <<"safety_ratings", "default", "vec", "SafetyRating">>>>],
      PromptFeedback |-> [rename_all |-> "none", fields |-> <<
            <<"block_reason", "skip", "one", "String">>,
            <<"safety_ratings", "default", "vec", "SafetyRating">>>>],
      UsageMetadata |-> [rename_all |-> "none", fields |-> <<
            <<"prompt_token_count", "skip", "one", "i32">>,
            <<"candidates_token_count", "skip", "one", "i32">>,
            <<"total_token_count", "skip", "one", "i32">>>>] ]

\* What serde's renames write: rename_all = "camelCase" on the field names
\* of more than one word, rename_all = "lowercase" and rename on the
\* variants of Role, ResponseMimeType and MimeType.
Renamed ==
    [ generation_config |-> "generationConfig",
      system_instruction |-> "systemInstruction",
      safety_settings |-> "safetySettings",
      stop_sequences |-> "stopSequences",
      response_mime_type |-> "responseMimeType",
      response_schema |-> "responseSchema",
      response_json_schema |-> "responseJsonSchema",
      response_modalities |-> "responseModalities",
      candidate_count |-> "candidateCount",
      max_output_tokens |-> "maxOutputTokens", top_p |-> "topP",
      top_k |-> "topK", presence_penalty |-> "presencePenalty",
      frequency_penalty |-> "frequencyPenalty",
      response_logprobs |-> "responseLogprobs",
      enable_enhanced_civic_answers |-> "enableEnhancedCivicAnswers",
      speech_config |-> "speechConfig",
      thinking_config |-> "thinkingConfig", image_config |-> "imageConfig",
      media_resolution |-> "mediaResolution", inline_data |-> "inlineData",
      function_call |-> "functionCall",
      function_response |-> "functionResponse", file_data |-> "fileData",
      executable_code |-> "executableCode",
      code_execution_result |-> "codeExecutionResult",
      video_metadata |-> "videoMetadata", mime_type |-> "mimeType",
      file_uri |-> "fileUri", start_offset |-> "startOffset",
      end_offset |-> "endOffset", prompt_feedback |-> "promptFeedback",
      usage_metadata |-> "usageMetadata", finish_reason |-> "finishReason",
      safety_ratings |-> "safetyRatings", block_reason |-> "blockReason",
      prompt_token_count |-> "promptTokenCount",
      candidates_token_count |-> "candidatesTokenCount",
      total_token_count |-> "totalTokenCount", User |-> "user",
      Model |-> "model", TextPlain |-> "text/plain",
      ApplicationJson |-> "application/json", TextEnum |-> "text/x.enum",
      ImagePng |-> "image/png" ]

\* The key a field of the struct S goes under on the wire.
WireKey(S, name) ==
    IF Structs[S].rename_all = "camelCase" /\ name \in DOMAIN Renamed
    THEN Renamed[name]
    ELSE name

\* skip_serializing_if that also drops the inline data of a part with a text.
SkippedBesideText(f, v) ==
    /\ f[2] = "skip"
    /\ \/ v[f[1]] = None
       \/ f[1] = "inline_data" /\ "text" \in DOMAIN v /\ v.text # None

\* skip_serializing_if that never skips.
NeverSkipped(f, v) == FALSE

\* skip_serializing_if = "Option::is_none" on the field f of the value v.
Skipped(f, v) == f[2] = "skip" /\ v[f[1]] = None

RECURSIVE SerializeValue(_, _, _, _)
RECURSIVE SerializeFields(_, _, _, _, _)

\* Serialize of a value v of the type (a Vec of it when the shape is "vec"),
\* T being the type parameter of the JsonString text fields in it.
SerializeValue(T, type, shape, v) ==
    IF shape = "vec"
    THEN [k |-> "arr", e |-> [i \in DOMAIN v |-> SerializeValue(T, type, "one", v[i])]]
    ELSE IF type \in DOMAIN Structs
    THEN [k |-> "obj", m |-> SerializeFields(T, type, v, Structs[type].fields, <<>>)]
    ELSE IF type = "JsonString" THEN [k |-> "str", s |-> SerializedStr(T, v)]
    ELSE IF type \in {"Role", "ResponseMimeType", "MimeType"}
    THEN [k |-> "str", s |-> Renamed[v]]
    ELSE IF type = "String" THEN [k |-> "str", s |-> v]
    ELSE IF type \in {"i32", "f32"} THEN [k |-> "num", n |-> v]
    ELSE IF type = "bool" THEN [k |-> "bool", b |-> v]
    ELSE [k |-> "value", v |-> v]

\* The members the fields fs of the struct S add to the members acc: a field
\* that is not skipped goes under its key, an Option as null or its value.
SerializeFields(T, S, v, fs, acc) ==
    IF fs = <<>> THEN acc
    ELSE IF Skipped(Head(fs), v) THEN SerializeFields(T, S, v, Tail(fs), acc)
    ELSE SerializeFields(T, S, v, Tail(fs), Append(acc,
             [key |-> WireKey(S, Head(fs)[1]),
              val |-> IF Head(fs)[2] # "skip"
                      THEN SerializeValue(T, Head(fs)[4], Head(fs)[3], v[Head(fs)[1]])
                      ELSE IF v[Head(fs)[1]] = None THEN [k |-> "null"]
                      ELSE SerializeValue(T, Head(fs)[4], Head(fs)[3], v[Head(fs)[1]].some)]))


\* A missing Option field that is refused like any other missing field.
MissingIsError(f) ==
    IF f[2] = "default" THEN Ok(IF f[3] = "vec" THEN <<>> ELSE FALSE) ELSE Fail

\* The field f when no member of the object goes under its key: None for an
\* Option, Default::default() under #[serde(default)], else an error.
Missing(f) ==
    IF f[2] = "skip" THEN Ok(None)
    ELSE IF f[2] = "default" THEN Ok(IF f[3] = "vec" THEN <<>> ELSE FALSE)
    ELSE Fail

RECURSIVE DeserializeValue(_, _, _, _)
RECURSIVE Field(_, _, _, _)

\* Deserialize of the tree j into the type (a Vec of it when the shape is
\* "vec"): Ok(v) or an error.  No document of the model holds an array
\* where a struct is read, so the sequence form of a struct is not met.
DeserializeValue(T, type, shape, j) ==
    IF shape = "vec" THEN
        IF j.k # "arr" THEN Fail
        ELSE IF \E i \in DOMAIN j.e : ~DeserializeValue(T, type, "one", j.e[i]).ok THEN Fail
        ELSE Ok([i \in DOMAIN j.e |-> DeserializeValue(T, type, "one", j.e[i]).val])
    ELSE IF type \in DOMAIN Structs THEN
        IF j.k # "obj" THEN Fail
        ELSE IF \E i \in DOMAIN Structs[type].fields :
                    ~Field(T, type, Structs[type].fields[i], j.m).ok THEN Fail
        ELSE Ok([n \in {Structs[type].fields[i][1] : i \in DOMAIN Structs[type].fields} |->
                    Field(T, type, CHOOSE f \in {Structs[type].fields[i] :
                              i \in DOMAIN Structs[type].fields} : f[1] = n, j.m).val])
    ELSE IF type = "JsonString" THEN
        IF j.k = "str" THEN FromWireStr(T, Ok(j.s)) ELSE Fail
    ELSE IF type \in {"Role", "ResponseMimeType", "MimeType"} THEN
        LET variants == IF type = "Role" THEN {"User", "Model"}
                        ELSE IF type = "MimeType" THEN {"ImagePng", "ApplicationJson"}
                        ELSE {"TextPlain", "ApplicationJson", "TextEnum"}
        IN  IF j.k = "str" /\ \E x \in variants : Renamed[x] = j.s
            THEN Ok(CHOOSE x \in variants : Renamed[x] = j.s)
            ELSE Fail
    ELSE IF type = "String" THEN IF j.k = "str" THEN Ok(j.s) ELSE Fail
    ELSE IF type \in {"i32", "f32"} THEN IF j.k = "num" THEN Ok(j.n) ELSE Fail
    ELSE IF type = "bool" THEN IF j.k = "bool" THEN Ok(j.b) ELSE Fail
    ELSE Ok(j)

\* Field that reads no Option but the text when T is a structured type.
FieldOfTypedText(T, S, f, m) ==
    LET hits == SelectSeq(m, LAMBDA x : x.key = WireKey(S, f[1])) IN
    IF T # "String" /\ f[2] = "skip" /\ f[4] # "JsonString" THEN Ok(None)
    ELSE IF Len(hits) > 1 THEN Fail
    ELSE IF hits = <<>> THEN Missing(f)
    ELSE IF f[2] # "skip" THEN DeserializeValue(T, f[4], f[3], hits[1].val)
    ELSE IF hits[1].val.k = "null" THEN Ok(None)
    ELSE IF DeserializeValue(T, f[4], f[3], hits[1].val).ok
    THEN Ok(Some(DeserializeValue(T, f[4], f[3], hits[1].val).val))
    ELSE Fail

\* The field f of the struct S read from the members m: the member under the
\* key of f (a key met twice is an error, other keys are ignored), null or
\* no member giving None for an Option.
Field(T, S, f, m) ==
    LET hits == SelectSeq(m, LAMBDA x : x.key = WireKey(S, f[1])) IN
    IF Len(hits) > 1 THEN Fail
    ELSE IF hits = <<>> THEN Missing(f)
    ELSE IF f[2] # "skip" THEN DeserializeValue(T, f[4], f[3], hits[1].val)
    ELSE IF hits[1].val.k = "null" THEN Ok(None)
    ELSE IF DeserializeValue(T, f[4], f[3], hits[1].val).ok
    THEN Ok(Some(DeserializeValue(T, f[4], f[3], hits[1].val).val))
    ELSE Fail

\* The value of the struct S with every field None.
AllNone(S) == [n \in {Structs[S].fields[i][1] : i \in DOMAIN Structs[S].fields} |-> None]

\* Parts of a request: each payload slot empty or populated, the Options
\* inside a payload empty or populated.
Parts ==
    { [ text |-> t, inline_data |-> a, function_call |-> b, function_response |-> c,
        file_data |-> d, executable_code |-> e, code_execution_result |-> g,
        video_metadata |-> h ] :
        t \in {None, Some(<<"a">>)},
        a \in {None, Some([mime_type |-> "ImagePng", data |-> "AAAA"])},
        b \in {None, Some([name |-> "f", args |-> None])},
        c \in {None, Some([name |-> "f", response |-> "{}"])},
        d \in {None, Some([mime_type |-> None, file_uri |-> "gs://b/o"]),
               Some([mime_type |-> Some("ImagePng"), file_uri |-> "gs://b/o"])},
        e \in {None, Some([language |-> "PYTHON", code |-> "pass"])},
        g \in {None, Some([outcome |-> "OUTCOME_OK", output |-> None]),
               Some([outcome |-> "OUTCOME_OK", output |-> Some("1")])},
        h \in {None, Some([start_offset |-> Some("1s"), end_offset |-> None, fps |-> None])} }

\* The generation configs of a request: none, the default one, a populated one.
Configs ==
    { None,
      Some(AllNone("GenerationConfig")),
      Some([AllNone("GenerationConfig") EXCEPT
                !.response_mime_type = Some("ApplicationJson"),
                !.response_json_schema = Some("{}"),
                !.stop_sequences = Some(<<"END">>),
                !.max_output_tokens = Some(2),
                !.temperature = Some("0.7")]) }

\* serde_json::to_value(&GenerateContentRequest { .. }).
SerializeRequest ==
    /\ Idle
    /\ \E p \in Parts : \E role \in {None, Some("User")} : \E g \in Configs :
       \E sys \in {None, Some([role |-> None, parts |-> <<>>])} :
       \E ss \in {None, Some(<<[category |-> "HARM", threshold |-> "BLOCK_NONE"]>>)} :
           LET request == [contents |-> <<[role |-> role, parts |-> <<p>>]>>,
                           generation_config |-> g,
                           system_instruction |-> sys,
                           safety_settings |-> ss]
           IN  /\ value' = Some(request)
               /\ json' = Some(SerializeValue("String", "GenerateContentRequest", "one", request))
    /\ ty' = Some("String")
    /\ UNCHANGED <<inner, wire_str, wire, decoded, body, response, seen, envelope,
                   builder_vars, client_vars>>

\* The optional members of a response body.
OptionalKeys == {"finish_reason", "safety_ratings", "prompt_feedback", "usage_metadata"}

\* A response body with the optional members named in present, in the
\* snake_case or the camelCase spelling of the keys: one candidate whose
\* first part has the text t, if any, and an inline_data payload, if asked
\* for, and which has a second part with a payload alone, if asked for.
Body(style, present, t, payload, more) ==
    LET K(n) == IF style = "camelCase" /\ n \in DOMAIN Renamed THEN Renamed[n] ELSE n
        Str(x) == [k |-> "str", s |-> x]
        Num(x) == [k |-> "num", n |-> x]
        Arr(x) == [k |-> "arr", e |-> x]
        Obj(x) == [k |-> "obj", m |-> x]
        Mem(key, val) == [key |-> key, val |-> val]
        Opt(n, val) == IF n \in present THEN <<Mem(K(n), val)>> ELSE <<>>
        Blob == <<Mem(K("inline_data"),
                      Obj(<<Mem(K("mime_type"), Str("image/png")), Mem("data", Str("AAAA"))>>))>>
        Rating == Obj(<<Mem("category", Str("HARM")), Mem("probability", Str("LOW"))>>)
    IN  Obj(<<Mem("candidates", Arr(<<Obj(
                  <<Mem("content", Obj(<<Mem("role", Str("model")),
                        Mem("parts", Arr(
                            <<Obj((IF t = None THEN <<>> ELSE <<Mem("text", Str(t.some))>>)
                                  \o (IF payload THEN Blob ELSE <<>>))>>
                            \o (IF more THEN <<Obj(Blob)>> ELSE <<>>)))>>))>>
                  \o Opt("finish_reason", Str("STOP"))
                  \o Opt("safety_ratings", Arr(<<Rating>>)))>>))>>
            \o Opt("prompt_feedback", Obj(<<Mem(K("block_reason"), Str("SAFETY")),
                                            Mem(K("safety_ratings"), Arr(<<Rating>>))>>))
            \o Opt("usage_metadata", Obj(<<Mem(K("prompt_token_count"), Num(10)),
                                           Mem(K("candidates_token_count"), Num(20)),
                                           Mem(K("total_token_count"), Num(30))>>)))

\* serde_json::from_value::<GenerateContentResponse<T>>(body).
DecodeJson ==
    /\ Idle
    /\ \E T \in Types : \E style \in {"snake_case", "camelCase"} :
       \E present \in SUBSET OptionalKeys :
       \E t \in {None, Some(TestSchemaToString(Alice)), Some(NotJson)} :
       \E payload \in BOOLEAN : \E more \in BOOLEAN :
           /\ ty' = Some(T)
           /\ json' = Some(Body(style, present, t, payload, more))
           /\ envelope' = Some(DeserializeValue(T, "GenerateContentResponse", "one",
                                   Body(style, present, t, payload, more)))
    /\ UNCHANGED <<inner, wire_str, wire, decoded, body, response, seen, value,
                   builder_vars, client_vars>>

\* has_text(), text() and into_text() called on every part of the first
\* candidate of the envelope decoded.
ReadPart ==
    /\ envelope # None
    /\ envelope.some.ok
    /\ seen = None
    /\ seen' = Some([i \in DOMAIN envelope.some.val.candidates[1].content.parts |->
                       [has_text |-> has_text(envelope.some.val.candidates[1].content.parts[i]),
                        text |-> part_text(envelope.some.val.candidates[1].content.parts[i]),
                        into_text |-> into_text(envelope.some.val.candidates[1].content.parts[i])]])
    /\ UNCHANGED <<ty, inner, wire_str, wire, decoded, body, response,
                   value, json, envelope, builder_vars, client_vars>>

\* The first_* projections called on the envelope decoded, and those of
\* Content called on the content of every candidate of it.
Project ==
    /\ response # None
    /\ response.some.ok
    /\ seen = None
    /\ seen' = Some([first_candidate |-> first_candidate(response.some.val),
                     first_content |-> first_content(response.some.val),
                     first_text |-> first_text(response.some.val),
                     first_part |-> [i \in DOMAIN response.some.val.candidates |->
                         first_part(response.some.val.candidates[i].content)],
                     content_first_text |-> [i \in DOMAIN response.some.val.candidates |->
                         content_first_text(response.some.val.candidates[i].content)]])
    /\ UNCHANGED <<ty, inner, wire_str, wire, decoded, body, response,
                   value, json, envelope, builder_vars, client_vars>>

InitCodec ==
    /\ ty = None
    /\ inner = None
    /\ wire_str = None
    /\ wire = None
    /\ decoded = None
    /\ body = None
    /\ response = None
    /\ seen = None
    /\ value = None
    /\ json = None
    /\ envelope = None
    /\ features = {}
    /\ builder = None
    /\ calls = 0
    /\ last = None
    /\ arg = None
    /\ before = None
    /\ built = None
    /\ configs = <<>>
    /\ rendered = <<>>
    /\ req = None
    /\ pc = "idle"
    /\ trace = <<>>
    /\ http = None
    /\ result = None

NextCodec ==
    \/ New
    \/ SerializeJsonString
    \/ ReceiveLiteral
    \/ ReceiveRaw
    \/ DeserializeJsonString
    \/ ReceiveBody
    \/ ReceiveCandidate
    \/ ReceivePart
    \/ DecodeBody
    \/ Project
    \/ SerializeRequest
    \/ DecodeJson
    \/ ReadPart

SpecCodec == InitCodec /\ [][NextCodec]_vars

(***************************************************************************)
(* GenerationConfigBuilder<T>.  A builder is the record of its fields with *)
(* response_type for the phantom T; a field a cargo feature compiles out   *)
(* is a field that is always None.                                         *)
(***************************************************************************)
Features == {"openapi", "json"}

\* The response types of the builder tests and the schema traits they derive.
BuilderTypes == {"String", "TestType1", "TestType2", "TestType3"}

ToSchema == {"TestType1", "TestType3"}

JsonSchema == {"String", "TestType1", "TestType2"}

\* The schema document derived from R in the given format.
schema(R, format) == [format |-> format, of |-> R]

I32s == {1, 2}
F32s == {"0.5", "0.7"}
JsonValues == {"{}", "[]"}
StopSequences == {"END", "STOP"}
Modalities == {"TEXT", "IMAGE"}
Resolutions == {"LOW", "HIGH"}

\* GenerationConfigBuilder::<T>::default().
Default(T) ==
    [ response_type |-> T,
      stop_sequences |-> None,
      response_mime_type |-> None,
      response_schema |-> None,
      response_json_schema |-> None,
      response_modalities |-> None,
      candidate_count |-> None,
      max_output_tokens |-> None,
      temperature |-> None,
      top_p |-> None,
      top_k |-> None,
      seed |-> None,
      presence_penalty |-> None,
      frequency_penalty |-> None,
      response_logprobs |-> None,
      logprobs |-> None,
      enable_enhanced_civic_answers |-> None,
      speech_config |-> None,
      thinking_config |-> None,
      image_config |-> None,
      media_resolution |-> None ]

\* stop_sequences(sequences).
stop_sequences(b, sequences) == [b EXCEPT !.stop_sequences = Some(sequences)]

\* PushOnto that puts the new element in front.
PushOntoFront(opt, x) == IF opt = None THEN Some(<<x>>) ELSE Some(<<x>> \o opt.some)

\* Option::get_or_insert_with(Vec::new) followed by push.
PushOnto(opt, x) == IF opt = None THEN Some(<<x>>) ELSE Some(Append(opt.some, x))

\* add_stop_sequence(sequence).
add_stop_sequence(b, sequence) ==
    [b EXCEPT !.stop_sequences = PushOnto(b.stop_sequences, sequence)]

\* response_schema that does not clear the other schema slot.
response_schema_keeps_other(b, R) ==
    [b EXCEPT !.response_type = R,
              !.response_schema = Some(schema(R, "openapi")),
              !.response_mime_type = Some("ApplicationJson")]

\* response_schema that leaves the MIME type as it was.
response_schema_keeps_mime(b, R) ==
    [b EXCEPT !.response_type = R,
              !.response_schema = Some(schema(R, "openapi")),
              !.response_json_schema = None]

\* response_schema::<R>(), compiled with the openapi feature.
response_schema(b, R) ==
    [ response_type |-> R,
      response_schema |-> Some(schema(R, "openapi")),
      response_json_schema |-> None,
      response_mime_type |-> Some("ApplicationJson"),
      stop_sequences |-> b.stop_sequences,
      response_modalities |-> b.response_modalities,
      candidate_count |-> b.candidate_count,
      max_output_tokens |-> b.max_output_tokens,
      temperature |-> b.temperature,
      top_p |-> b.top_p,
      top_k |-> b.top_k,
      seed |-> b.seed,
      presence_penalty |-> b.presence_penalty,
      frequency_penalty |-> b.frequency_penalty,
      response_logprobs |-> b.response_logprobs,
      logprobs |-> b.logprobs,
      enable_enhanced_civic_answers |-> b.enable_enhanced_civic_answers,
      speech_config |-> b.speech_config,
      thinking_config |-> b.thinking_config,
      image_config |-> b.image_config,
      media_resolution |-> b.media_resolution ]

\* response_json_schema that stays a builder of the type it was called on.
response_json_schema_keeps_type(b, R) ==
    [b EXCEPT !.response_json_schema = Some(schema(R, "json")),
              !.response_schema = None,
              !.response_mime_type = Some("ApplicationJson")]

\* response_json_schema that does not clear the other schema slot.
response_json_schema_keeps_other(b, R) ==
    [b EXCEPT !.response_type = R,
              !.response_json_schema = Some(schema(R, "json")),
              !.response_mime_type = Some("ApplicationJson")]

\* response_json_schema that does not carry the seed over.
response_json_schema_drops_seed(b, R) ==
    [b EXCEPT !.response_type = R,
              !.response_json_schema = Some(schema(R, "json")),
              !.response_schema = None,
              !.response_mime_type = Some("ApplicationJson"),
              !.seed = None]

\* response_json_schema::<R>(), compiled with the json feature.
response_json_schema(b, R) ==
    [ response_type |-> R,
      response_json_schema |-> Some(schema(R, "json")),
      response_schema |-> None,
      response_mime_type |-> Some("ApplicationJson"),
      stop_sequences |-> b.stop_sequences,
      response_modalities |-> b.response_modalities,
      candidate_count |-> b.candidate_count,
      max_output_tokens |-> b.max_output_tokens,
      temperature |-> b.temperature,
      top_p |-> b.top_p,
      top_k |-> b.top_k,
      seed |-> b.seed,
      presence_penalty |-> b.presence_penalty,
      frequency_penalty |-> b.frequency_penalty,
      response_logprobs |-> b.response_logprobs,
      logprobs |-> b.logprobs,
      enable_enhanced_civic_answers |-> b.enable_enhanced_civic_answers,
      speech_config |-> b.speech_config,
      thinking_config |-> b.thinking_config,
      image_config |-> b.image_config,
      media_resolution |-> b.media_resolution ]

\* response_modalities(modalities).
response_modalities(b, modalities) ==
    [b EXCEPT !.response_modalities = Some(modalities)]

\* add_response_modality(modality).
add_response_modality(b, modality) ==
    [b EXCEPT !.response_modalities = PushOnto(b.response_modalities, modality)]

\* candidate_count(count).
candidate_count(b, count) == [b EXCEPT !.candidate_count = Some(count)]

\* max_output_tokens(tokens).
max_output_tokens(b, tokens) == [b EXCEPT !.max_output_tokens = Some(tokens)]

\* temperature that keeps a value set earlier.
temperature_keeps_first(b, temp) ==
    IF b.temperature = None THEN [b EXCEPT !.temperature = Some(temp)] ELSE b

\* temperature(temp).
temperature(b, temp) == [b EXCEPT !.temperature = Some(temp)]

\* top_p(p).
top_p(b, p) == [b EXCEPT !.top_p = Some(p)]

\* top_k(k).
top_k(b, k) == [b EXCEPT !.top_k = Some(k)]

\* seed(sd).
seed(b, sd) == [b EXCEPT !.seed = Some(sd)]

\* presence_penalty(penalty).
presence_penalty(b, penalty) == [b EXCEPT !.presence_penalty = Some(penalty)]

\* frequency_penalty(penalty).
frequency_penalty(b, penalty) == [b EXCEPT !.frequency_penalty = Some(penalty)]

\* response_logprobs(enabled).
response_logprobs(b, enabled) == [b EXCEPT !.response_logprobs = Some(enabled)]

\* logprobs(count).
logprobs(b, count) == [b EXCEPT !.logprobs = Some(count)]

\* enable_enhanced_civic_answers(enabled).
enable_enhanced_civic_answers(b, enabled) == [b EXCEPT !.enable_enhanced_civic_answers = Some(enabled)]

\* speech_config(config).
speech_config(b, config) == [b EXCEPT !.speech_config = Some(config)]

\* thinking_config(config).
thinking_config(b, config) == [b EXCEPT !.thinking_config = Some(config)]

\* image_config(config).
image_config(b, config) == [b EXCEPT !.image_config = Some(config)]

\* media_resolution(resolution).
media_resolution(b, resolution) == [b EXCEPT !.media_resolution = Some(resolution)]

\* text_response().
text_response(b) == [b EXCEPT !.response_mime_type = Some("TextPlain")]

\* enum_response().
enum_response(b) == [b EXCEPT !.response_mime_type = Some("TextEnum")]

\* has_schema that lets the build through when no feature is compiled in.
has_schema_without_backend(F, b) ==
    IF F = {} THEN TRUE
    ELSE \/ "openapi" \in F /\ b.response_schema # None
         \/ "json" \in F /\ b.response_json_schema # None

\* has_schema that looks at the OpenAPI slot alone.
has_schema_openapi_only(F, b) == "openapi" \in F /\ b.response_schema # None

\* build(): has_schema under the features F the crate is compiled with.
has_schema(F, b) ==
    IF "openapi" \in F /\ "json" \in F
    THEN b.response_schema # None \/ b.response_json_schema # None
    ELSE IF "openapi" \in F THEN b.response_schema # None
    ELSE IF "json" \in F THEN b.response_json_schema # None
    ELSE FALSE

Err(e) == [ok |-> FALSE, err |-> e]

\* Config that fills an unset MIME type with the documented default.
ConfigWithDefaultMime(b) ==
    [b EXCEPT !.response_mime_type =
                  IF b.response_mime_type = None THEN Some("TextPlain")
                  ELSE b.response_mime_type]

\* The GenerationConfig<T> build() returns on success.
Config(b) ==
    [ response_type |-> b.response_type,
      stop_sequences |-> b.stop_sequences,
      response_mime_type |-> b.response_mime_type,
      response_schema |-> b.response_schema,
      response_json_schema |-> b.response_json_schema,
      response_modalities |-> b.response_modalities,
      candidate_count |-> b.candidate_count,
      max_output_tokens |-> b.max_output_tokens,
      temperature |-> b.temperature,
      top_p |-> b.top_p,
      top_k |-> b.top_k,
      seed |-> b.seed,
      presence_penalty |-> b.presence_penalty,
      frequency_penalty |-> b.frequency_penalty,
      response_logprobs |-> b.response_logprobs,
      logprobs |-> b.logprobs,
      enable_enhanced_civic_answers |-> b.enable_enhanced_civic_answers,
      speech_config |-> b.speech_config,
      thinking_config |-> b.thinking_config,
      image_config |-> b.image_config,
      media_resolution |-> b.media_resolution ]

\* build() that asks every response type for a schema.
build_always_requires(F, b) ==
    IF ~has_schema(F, b)
    THEN Err("SchemaRequiredForTypedResponse")
    ELSE Ok(Config(b))

\* build().
build(F, b) ==
    IF b.response_type # "String" /\ ~has_schema(F, b)
    THEN Err("SchemaRequiredForTypedResponse")
    ELSE Ok(Config(b))

(***************************************************************************)
(* The builder chain: GenerationConfig::<T>::builder(), at most MaxCalls   *)
(* builder methods, then build().                                          *)
(***************************************************************************)
Chaining == builder # None /\ built = None /\ calls < MaxCalls

\* The method named, called with the argument a, returns the builder b.
Returns(method, a, b) ==
    /\ builder' = Some(b)
    /\ calls' = calls + 1
    /\ last' = Some(method)
    /\ arg' = a
    /\ before' = builder
    /\ UNCHANGED <<features, built, codec_vars, client_vars>>

CallStopSequences ==
    /\ Chaining
    /\ \E v \in {<<>>, <<"END", "STOP">>} : Returns("stop_sequences", Some(v), stop_sequences(builder.some, v))

CallAddStopSequence ==
    /\ Chaining
    /\ \E v \in StopSequences : Returns("add_stop_sequence", Some(v), add_stop_sequence(builder.some, v))

CallResponseSchema ==
    /\ Chaining
    /\ "openapi" \in features
    /\ \E R \in ToSchema : Returns("response_schema", Some(R), response_schema(builder.some, R))

CallResponseJsonSchema ==
    /\ Chaining
    /\ "json" \in features
    /\ \E R \in JsonSchema : Returns("response_json_schema", Some(R), response_json_schema(builder.some, R))

CallResponseModalities ==
    /\ Chaining
    /\ \E v \in {<<>>, <<"TEXT", "IMAGE">>} : Returns("response_modalities", Some(v), response_modalities(builder.some, v))

CallAddResponseModality ==
    /\ Chaining
    /\ \E v \in Modalities : Returns("add_response_modality", Some(v), add_response_modality(builder.some, v))

CallCandidateCount ==
    /\ Chaining
    /\ \E v \in I32s : Returns("candidate_count", Some(v), candidate_count(builder.some, v))

CallMaxOutputTokens ==
    /\ Chaining
    /\ \E v \in I32s : Returns("max_output_tokens", Some(v), max_output_tokens(builder.some, v))

CallTemperature ==
    /\ Chaining
    /\ \E v \in F32s : Returns("temperature", Some(v), temperature(builder.some, v))

CallTopP ==
    /\ Chaining
    /\ \E v \in F32s : Returns("top_p", Some(v), top_p(builder.some, v))

CallTopK ==
    /\ Chaining
    /\ \E v \in I32s : Returns("top_k", Some(v), top_k(builder.some, v))

CallSeed ==
    /\ Chaining
    /\ \E v \in I32s : Returns("seed", Some(v), seed(builder.some, v))

CallPresencePenalty ==
    /\ Chaining
    /\ \E v \in F32s : Returns("presence_penalty", Some(v), presence_penalty(builder.some, v))

CallFrequencyPenalty ==
    /\ Chaining
    /\ \E v \in F32s : Returns("frequency_penalty", Some(v), frequency_penalty(builder.some, v))

CallResponseLogprobs ==
    /\ Chaining
    /\ \E v \in BOOLEAN : Returns("response_logprobs", Some(v), response_logprobs(builder.some, v))

CallLogprobs ==
    /\ Chaining
    /\ \E v \in I32s : Returns("logprobs", Some(v), logprobs(builder.some, v))

CallEnableEnhancedCivicAnswers ==
    /\ Chaining
    /\ \E v \in BOOLEAN : Returns("enable_enhanced_civic_answers", Some(v), enable_enhanced_civic_answers(builder.some, v))

CallSpeechConfig ==
    /\ Chaining
    /\ \E v \in JsonValues : Returns("speech_config", Some(v), speech_config(builder.some, v))

CallThinkingConfig ==
    /\ Chaining
    /\ \E v \in JsonValues : Returns("thinking_config", Some(v), thinking_config(builder.some, v))

CallImageConfig ==
    /\ Chaining
    /\ \E v \in JsonValues : Returns("image_config", Some(v), image_config(builder.some, v))

CallMediaResolution ==
    /\ Chaining
    /\ \E v \in Resolutions : Returns("media_resolution", Some(v), media_resolution(builder.some, v))

CallTextResponse ==
    /\ Chaining
    /\ Returns("text_response", None, text_response(builder.some))

CallEnumResponse ==
    /\ Chaining
    /\ Returns("enum_response", None, enum_response(builder.some))

CallBuild ==
    /\ builder # None
    /\ built = None
    /\ built' = Some(build(features, builder.some))
    /\ UNCHANGED <<features, builder, calls, last, arg, before, codec_vars, client_vars>>

InitBuilder ==
    /\ ty = None
    /\ inner = None
    /\ wire_str = None
    /\ wire = None
    /\ decoded = None
    /\ body = None
    /\ response = None
    /\ seen = None
    /\ value = None
    /\ json = None
    /\ envelope = None
    /\ features \in SUBSET Features
    /\ \E T \in BuilderTypes : builder = Some(Default(T))
    /\ calls = 0
    /\ last = None
    /\ arg = None
    /\ before = None
    /\ built = None
    /\ configs = <<>>
    /\ rendered = <<>>
    /\ req = None
    /\ pc = "idle"
    /\ trace = <<>>
    /\ http = None
    /\ result = None

NextBuilder ==
    \/ CallStopSequences
    \/ CallAddStopSequence
    \/ CallResponseSchema
    \/ CallResponseJsonSchema
    \/ CallResponseModalities
    \/ CallAddResponseModality
    \/ CallCandidateCount
    \/ CallMaxOutputTokens
    \/ CallTemperature
    \/ CallTopP
    \/ CallTopK
    \/ CallSeed
    \/ CallPresencePenalty
    \/ CallFrequencyPenalty
    \/ CallResponseLogprobs
    \/ CallLogprobs
    \/ CallEnableEnhancedCivicAnswers
    \/ CallSpeechConfig
    \/ CallThinkingConfig
    \/ CallImageConfig
    \/ CallMediaResolution
    \/ CallTextResponse
    \/ CallEnumResponse
    \/ CallBuild

SpecBuilder == InitBuilder /\ [][NextBuilder]_vars

(***************************************************************************)
(* GeminiConfig and GeminiV1Beta::generate_content.  The transport is      *)
(* reqwest: send() fails or returns a response with a status and a body,   *)
(* error_for_status() turns a 4xx or 5xx response into an error, json()    *)
(* reads the body into the type asked for.                                 *)
(***************************************************************************)
\* GeminiConfig::new(api_key, model).
GeminiConfig_new(api_key, model) ==
    [ api_key |-> api_key,
      model |-> model,
      base_url |-> "https://generativelanguage.googleapis.com/v1beta" ]

\* The derived Debug: every field as it is.
fmt_derived(c) ==
    <<"GeminiConfig", " { ", "api_key", ": ", Quote, c.api_key, Quote, ", ",
      "model", ": ", Quote, c.model, Quote, ", ",
      "base_url", ": ", Quote, c.base_url, Quote, " }">>

\* impl Debug for GeminiConfig: the pieces debug_struct writes, in order.
fmt(c) ==
    <<"GeminiConfig", " { ", "api_key", ": ", Quote, "[REDACTED]", Quote, ", ",
      "model", ": ", Quote, c.model, Quote, ", ",
      "base_url", ": ", Quote, c.base_url, Quote, " }">>

\* GeminiV1Beta::build_generate_url: the pieces format! joins.
build_generate_url(c) == <<c.base_url, "/models/", c.model, ":generateContent">>

\* error_for_status that lets only a 2xx response through.
error_for_status_strict(status) ==
    IF status \in 200..299 THEN Ok(status) ELSE Err("status")

\* Response::error_for_status: an error for a client or server error status.
error_for_status(status) ==
    IF status \in 400..599 THEN Err("status") ELSE Ok(status)

\* Result::map_err(|e| Box::new(e) as Box<dyn Error>) followed by ?.
map_err(r, e) == IF r.ok THEN r ELSE Err(e)

\* GenerationConfig::<T>::default().
GenerationConfigDefault(T) ==
    [f \in DOMAIN AllNone("GenerationConfig") \cup {"response_type"} |->
        IF f = "response_type" THEN T ELSE None]

\* The requests a caller can write for the response type T: one content
\* with a text, and no generation config, GenerationConfig::default(), or
\* what build() returned for a builder of T.
Requests(T) ==
    { [ contents |-> <<[role |-> Some("User"),
                        parts |-> <<[AllNone("Part") EXCEPT !.text = Some(<<"a">>)]>>]>>,
        generation_config |-> g,
        system_instruction |-> None,
        safety_settings |-> None ] :
      g \in {None, Some(GenerationConfigDefault(T))}
          \cup {Some(r.val) : r \in {x \in {build(Features, Default(T)),
                                            build(Features, temperature(Default(T), "0.7")),
                                            build(Features, response_json_schema(Default("String"), T))} :
                                         x.ok}} }

\* The bodies a response carries: an envelope without a text, with the text
\* of a TestSchema, with a text that is not JSON, and a document that is no
\* envelope.
Bodies ==
    {Body("snake_case", OptionalKeys, t, FALSE, FALSE) :
         t \in {None, Some(TestSchemaToString(Alice)), Some(NotJson)}}
        \cup {[k |-> "arr", e |-> <<>>]}

\* GeminiConfig::new.
NewConfig ==
    /\ pc = "idle"
    /\ Len(configs) < MaxConfigs
    /\ \E api_key \in {"key-1", "key-2"} : \E model \in {"gemini-1.5-flash", "gemini-2.5-flash"} :
           configs' = Append(configs, GeminiConfig_new(api_key, model))
    /\ UNCHANGED <<rendered, req, pc, trace, http, result, codec_vars, builder_vars>>

\* format!("{:?}", config) of the next config not yet rendered.
FormatDebug ==
    /\ Len(rendered) < Len(configs)
    /\ rendered' = Append(rendered, fmt(configs[Len(rendered) + 1]))
    /\ UNCHANGED <<configs, req, pc, trace, http, result, codec_vars, builder_vars>>

\* generate_content(request) on GeminiV1Beta::new(config) for the config
\* constructed last, up to the await of send(): the POST goes out.
GenerateContent ==
    /\ pc = "idle"
    /\ configs # <<>>
    /\ \E T \in Types : \E r \in Requests(T) :
           /\ req' = Some([response_type |-> T, value |-> r])
           /\ trace' = <<[op |-> "POST",
                          url |-> build_generate_url(configs[Len(configs)]),
                          x_goog_api_key |-> configs[Len(configs)].api_key,
                          content_type |-> "application/json",
                          body |-> SerializeValue("String", "GenerateContentRequest", "one", r)]>>
    /\ pc' = "sending"
    /\ UNCHANGED <<configs, rendered, http, result, codec_vars, builder_vars>>

\* send() returns an error: the call returns it.
SendFails ==
    /\ pc = "sending"
    /\ result' = Some(Err("send"))
    /\ pc' = "done"
    /\ UNCHANGED <<configs, rendered, req, trace, http, codec_vars, builder_vars>>

\* send() returns a response: error_for_status() ends the call with an
\* error or lets it go on to the await of json().
Respond ==
    /\ pc = "sending"
    /\ \E status \in {200, 300, 404, 500} : \E b \in Bodies :
           /\ trace' = Append(trace, [op |-> "status", status |-> status])
           /\ IF error_for_status(status).ok
              THEN /\ http' = Some([status |-> status, body |-> b])
                   /\ pc' = "reading"
                   /\ UNCHANGED result
              ELSE /\ result' = Some(error_for_status(status))
                   /\ pc' = "done"
                   /\ UNCHANGED http
    /\ UNCHANGED <<configs, rendered, req, codec_vars, builder_vars>>

\* json() reads the body as GenerateContentResponse<T>: the call returns
\* the envelope or the error.
ReadJson ==
    /\ pc = "reading"
    /\ trace' = Append(trace, [op |-> "json"])
    /\ result' = Some(map_err(DeserializeValue(req.some.response_type,
                                  "GenerateContentResponse", "one", http.some.body),
                              "decode"))
    /\ pc' = "done"
    /\ UNCHANGED <<configs, rendered, req, http, codec_vars, builder_vars>>

InitClient ==
    /\ ty = None
    /\ inner = None
    /\ wire_str = None
    /\ wire = None
    /\ decoded = None
    /\ body = None
    /\ response = None
    /\ seen = None
    /\ value = None
    /\ json = None
    /\ envelope = None
    /\ features = Features
    /\ builder = None
    /\ calls = 0
    /\ last = None
    /\ arg = None
    /\ before = None
    /\ built = None
    /\ configs = <<>>
    /\ rendered = <<>>
    /\ req = None
    /\ pc = "idle"
    /\ trace = <<>>
    /\ http = None
    /\ result = None

NextClient ==
    \/ NewConfig
    \/ FormatDebug
    \/ GenerateContent
    \/ SendFails
    \/ Respond
    \/ ReadJson

SpecClient == InitClient /\ [][NextClient]_vars

(***************************************************************************)
(* Properties of the codec, checked under SpecCodec.                       *)
(***************************************************************************)

\* The type parameter has been chosen and is T.
TypeIs(T) == ty = Some(T)

\* C1: deserializing what serializing JsonString::new(v) wrote gives a
\* JsonString whose inner value is v, for String and for TestSchema.
RoundTrip ==
    (inner # None /\ decoded # None) => decoded.some = Ok(inner.some)

RoundTripWitness ==
    /\ TypeIs("TestSchema")
    /\ inner = Some(Bob)
    /\ decoded = Some(Ok(Bob))

\* C2: for T = String the wire string is the wrapped string itself, and
\* decoding a wire string gives that string, whatever it holds.
PlainPassThrough ==
    TypeIs("String") =>
        /\ (inner # None /\ wire # None) =>
               /\ wire_str.some = inner.some
               /\ wire.some = SerializeStr(inner.some)
        /\ (wire_str # None /\ decoded # None) =>
               decoded.some = Ok(wire_str.some)

PlainPassThroughWitness ==
    /\ TypeIs("String")
    /\ wire_str = Some(TestSchemaToString(Alice))
    /\ decoded = Some(Ok(TestSchemaToString(Alice)))

\* C3: for T = TestSchema the wire string is the JSON serialization of the
\* wrapped value, written as one JSON string literal, and decoding parses
\* the wire string as JSON into a TestSchema.
StructuredEncoding ==
    TypeIs("TestSchema") =>
        /\ (inner # None /\ wire # None) =>
               /\ wire_str.some = TestSchemaToString(inner.some)
               /\ wire.some = SerializeStr(TestSchemaToString(inner.some))
        /\ (wire_str # None /\ decoded # None) =>
               /\ decoded.some = from_str("TestSchema", wire_str.some)
               /\ \A v \in {Alice, Bob} :
                      wire_str.some = TestSchemaToString(v) => decoded.some = Ok(v)
               /\ wire_str.some \in {NotJson, WrongShape} => decoded.some = Fail

StructuredEncodingWitness ==
    /\ TypeIs("TestSchema")
    /\ inner = Some(Alice)
    /\ wire = Some(SerializeStr(TestSchemaToString(Alice)))
    /\ decoded = None

HasBadPart(b) ==
    \E c \in 1..Len(b.candidates) :
        \E p \in 1..Len(b.candidates[c].content.parts) :
            LET text == b.candidates[c].content.parts[p].text IN
            text # None /\ text.some \in BadPartTexts

\* C4: decoding a body for TestSchema in which the text of some part is not
\* JSON or not a TestSchema returns an error and no envelope.
FailFast ==
    (TypeIs("TestSchema") /\ response # None /\ HasBadPart(body.some))
        => response.some = Fail

FailFastWitness ==
    /\ TypeIs("TestSchema")
    /\ response = Some(Fail)
    /\ Len(body.some.candidates) = 2
    /\ body.some.candidates[1].content.parts
           = <<[text |-> Some(SerializeStr(TestSchemaToString(Alice)))]>>
    /\ body.some.candidates[2].content.parts
           = <<[text |-> Some(SerializeStr(TestSchemaToString(Bob)))],
               [text |-> Some(SerializeStr(WrongShape))]>>

(***************************************************************************)
(* Properties of the builder, checked under SpecBuilder.                   *)
(***************************************************************************)
SchemaMethods == {Some("response_schema"), Some("response_json_schema")}

SchemaRequired == Some(Err("SchemaRequiredForTypedResponse"))

\* C5: for a response type other than String, build() returns
\* SchemaRequiredForTypedResponse when both schema slots are empty and Ok
\* when one of them is populated.
SchemaRequirement ==
    (built # None /\ builder.some.response_type # "String") =>
        IF builder.some.response_schema = None
               /\ builder.some.response_json_schema = None
        THEN built = SchemaRequired
        ELSE built.some.ok

SchemaRequirementWitness ==
    /\ built = SchemaRequired
    /\ builder.some.response_type = "TestType2"
    /\ builder.some.temperature # None
    /\ calls = MaxCalls

\* C6: for the response type String, build() returns Ok whatever was set.
PlainTextBuilds ==
    (built # None /\ builder.some.response_type = "String") => built.some.ok

PlainTextBuildsWitness ==
    /\ built # None
    /\ built.some.ok
    /\ builder.some.response_type = "String"
    /\ builder.some.response_schema = None
    /\ builder.some.response_json_schema = None
    /\ builder.some.temperature # None

OnlyOpenApi(c) == c.response_schema # None /\ c.response_json_schema = None

OnlyJsonSchema(c) == c.response_json_schema # None /\ c.response_schema = None

IsJson(c) == c.response_mime_type = Some("ApplicationJson")

\* C7: response_json_schema called on a builder that holds an OpenAPI schema
\* leaves the OpenAPI slot empty and the JSON-Schema slot populated,
\* response_schema called on a builder that holds a JSON schema does the
\* reverse, and the config built next has that slot and ApplicationJson.
MutualExclusivity ==
    /\ (last = Some("response_json_schema") /\ before.some.response_schema # None) =>
           /\ OnlyJsonSchema(builder.some)
           /\ built # None =>
                  /\ built.some.ok
                  /\ OnlyJsonSchema(built.some.val)
                  /\ IsJson(built.some.val)
    /\ (last = Some("response_schema") /\ before.some.response_json_schema # None) =>
           /\ OnlyOpenApi(builder.some)
           /\ built # None =>
                  /\ built.some.ok
                  /\ OnlyOpenApi(built.some.val)
                  /\ IsJson(built.some.val)

MutualExclusivityWitness ==
    /\ last = Some("response_json_schema")
    /\ before.some.response_schema # None
    /\ built # None

AtMostOne(c) == c.response_schema = None \/ c.response_json_schema = None

\* C8: no builder of a chain, and no config build() returns, holds both
\* schemas.
AtMostOneSchema ==
    /\ builder # None => AtMostOne(builder.some)
    /\ (built # None /\ built.some.ok) => AtMostOne(built.some.val)

AtMostOneSchemaWitness ==
    /\ last = Some("response_schema")
    /\ before.some.response_json_schema # None
    /\ built # None
    /\ built.some.ok
    /\ built.some.val.response_schema # None

\* C9: the builder a schema method returns has the MIME type ApplicationJson,
\* whatever the MIME type was.
SchemaSetsMimeType ==
    last \in SchemaMethods => IsJson(builder.some)

SchemaSetsMimeTypeWitness ==
    /\ last = Some("response_schema")
    /\ before.some.response_mime_type = Some("TextEnum")

CarriedFields ==
    {"stop_sequences", "response_modalities", "candidate_count",
     "max_output_tokens", "temperature", "top_p", "top_k", "seed",
     "presence_penalty", "frequency_penalty", "response_logprobs", "logprobs",
     "enable_enhanced_civic_answers", "speech_config", "thinking_config",
     "image_config", "media_resolution"}

\* C10: the builder a schema method returns holds, in every field other
\* than the two schema slots and the MIME type, the value the field had.
SchemaCarriesOver ==
    last \in SchemaMethods =>
        \A f \in CarriedFields : builder.some[f] = before.some[f]

SchemaCarriesOverWitness ==
    /\ last = Some("response_json_schema")
    /\ before.some.seed # None
    /\ builder.some.seed = before.some.seed

SchemaOf(c) == {c[f].some.of : f \in {g \in {"response_schema", "response_json_schema"} : c[g] # None}}

\* C11: a populated schema slot holds the schema derived from the builder's
\* response type; a schema method called for R returns a builder of
\* response type R, whatever the type was; every other method returns a
\* builder of the response type it was called on.
TypeAndSchemaAgree ==
    /\ builder # None => SchemaOf(builder.some) \subseteq {builder.some.response_type}
    /\ last \in SchemaMethods => builder.some.response_type = arg.some
    /\ (last # None /\ last \notin SchemaMethods) =>
           builder.some.response_type = before.some.response_type

TypeAndSchemaAgreeWitness ==
    /\ last = Some("response_json_schema")
    /\ arg = Some("TestType2")
    /\ before.some.response_type = "TestType3"
    /\ before.some.response_schema # None
    /\ SchemaOf(builder.some) = {"TestType2"}

\* C12: compiled with neither the openapi nor the json feature, build()
\* returns SchemaRequiredForTypedResponse for every response type other
\* than String, whatever was set.
NoBackendFails ==
    (features = {} /\ built # None /\ builder.some.response_type # "String")
        => built = SchemaRequired

NoBackendFailsWitness ==
    /\ features = {}
    /\ built = SchemaRequired
    /\ builder.some.response_type = "TestType1"
    /\ builder.some.max_output_tokens # None
    /\ calls = MaxCalls

ListOf(opt) == IF opt = None THEN <<>> ELSE opt.some

Appended(f) ==
    /\ builder.some[f] = Some(Append(ListOf(before.some[f]), arg.some))
    /\ (built # None /\ built.some.ok) => built.some.val[f] = builder.some[f]

\* C20: add_stop_sequence(s) returns a builder whose stop-sequence list is
\* the list it was called on (empty when unset) with s added at the end,
\* and the config built next holds that list; add_response_modality does
\* the same for the modality list.
AppendKeepsOrder ==
    /\ last = Some("add_stop_sequence") => Appended("stop_sequences")
    /\ last = Some("add_response_modality") => Appended("response_modalities")

AppendKeepsOrderWitness ==
    /\ calls = 2
    /\ last = Some("add_stop_sequence")
    /\ before.some.stop_sequences = Some(<<"STOP">>)
    /\ arg = Some("END")
    /\ built # None
    /\ built.some.ok
    /\ built.some.val.stop_sequences = Some(<<"STOP", "END">>)

(***************************************************************************)
(* Properties of the decoded envelope, checked under SpecCodec.            *)
(***************************************************************************)
FirstPartOf(c) == IF Len(c.parts) = 0 THEN None ELSE Some(c.parts[1])

FirstTextOf(c) ==
    IF Len(c.parts) = 0 \/ c.parts[1].text = None THEN None
    ELSE Some(c.parts[1].text.some)

FirstValuesOf(cs) ==
    [first_candidate |-> IF Len(cs) = 0 THEN None ELSE Some(cs[1]),
     first_content |-> IF Len(cs) = 0 THEN None ELSE Some(cs[1].content),
     first_text |-> IF Len(cs) = 0 THEN None ELSE FirstTextOf(cs[1].content),
     first_part |-> [i \in 1..Len(cs) |-> FirstPartOf(cs[i].content)],
     content_first_text |-> [i \in 1..Len(cs) |-> FirstTextOf(cs[i].content)]]

\* C13: first_candidate(), first_content() and first_text() of an envelope
\* and first_part() and first_text() of a content return what stands at
\* candidate 1 and part 1, and absent when there is no candidate, no part
\* or no text there; what stands at later positions plays no role.
FirstValues ==
    (response # None /\ seen # None) =>
        seen.some = FirstValuesOf(response.some.val.candidates)

FirstValuesWitness ==
    /\ TypeIs("TestSchema")
    /\ response # None
    /\ seen # None
    /\ seen.some.first_text = None
    /\ seen.some.first_content # None
    /\ Len(response.some.val.candidates) = 2
    /\ response.some.val.candidates[1].content.parts
           = <<[text |-> None], [text |-> Some(Alice)]>>
    /\ response.some.val.candidates[2].content.parts = <<[text |-> Some(Bob)]>>

\* The wire text of a part that decodes to the part p of TestSchema.
WireOf(p) ==
    IF p.text = None THEN [text |-> None]
    ELSE [text |-> Some(SerializeStr(TestSchemaToString(p.text.some)))]

SameOrder(cs, ws) ==
    /\ Len(cs) = Len(ws)
    /\ \A i \in 1..Len(cs) :
           /\ Len(cs[i].content.parts) = Len(ws[i].content.parts)
           /\ \A j \in 1..Len(cs[i].content.parts) :
                  WireOf(cs[i].content.parts[j]) = ws[i].content.parts[j]

FirstWire(ws) ==
    IF Len(ws) = 0 \/ Len(ws[1].content.parts) = 0 THEN [text |-> None]
    ELSE ws[1].content.parts[1]

\* C14: a body decoded for TestSchema gives the candidates of the body, as
\* many and in the same order, each with its parts in the same order and
\* each text the value its wire string encodes; first_text() is the value
\* of part 1 of candidate 1.
OrderPreserved ==
    (TypeIs("TestSchema") /\ response # None /\ response.some.ok) =>
        /\ SameOrder(response.some.val.candidates, body.some.candidates)
        /\ seen # None =>
               WireOf([text |-> seen.some.first_text]) = FirstWire(body.some.candidates)

OrderPreservedWitness ==
    /\ TypeIs("TestSchema")
    /\ response # None
    /\ response.some.ok
    /\ Len(body.some.candidates) = 2
    /\ response.some.val.candidates[1].content.parts
           = <<[text |-> Some(Alice)], [text |-> Some(Bob)]>>
    /\ response.some.val.candidates[2].content.parts = <<[text |-> Some(Bob)]>>
    /\ seen # None
    /\ seen.some.first_text = Some(Alice)

(***************************************************************************)
(* Properties of the wire format, checked under SpecCodec.                 *)
(***************************************************************************)
Keys(o) == {o.m[i].key : i \in DOMAIN o.m}

ValueOf(o, key) == o.m[CHOOSE i \in DOMAIN o.m : o.m[i].key = key].val

\* The response bodies that leave out the prompt feedback, the usage
\* metadata and the finish reason, with the envelope each decodes to for T.
Decodable(T, t) == ~(T = "TestSchema" /\ t = Some(NotJson))

TextFor(T, t) ==
    IF t = None THEN None
    ELSE IF T = "String" THEN t
    ELSE Some(CHOOSE v \in {Alice, Bob} : TestSchemaToString(v) = t.some)

InlineData == Some([mime_type |-> "ImagePng", data |-> "AAAA"])

Rating == [category |-> "HARM", probability |-> "LOW", blocked |-> FALSE]

DecodesWithout(T, style, ratings, t, payload, more) ==
    /\ envelope.some.ok
    /\ envelope.some.val.prompt_feedback = None
    /\ envelope.some.val.usage_metadata = None
    /\ Len(envelope.some.val.candidates) = 1
    /\ LET c == envelope.some.val.candidates[1] IN
       /\ c.finish_reason = None
       /\ c.content.role = Some("Model")
       /\ Len(c.content.parts) = IF more THEN 2 ELSE 1
       /\ c.content.parts[1].text = TextFor(T, t)
       /\ style = "snake_case" =>
              /\ c.safety_ratings = IF ratings THEN <<Rating>> ELSE <<>>
              /\ c.content.parts[1].inline_data = IF payload THEN InlineData ELSE None

PayloadKeys ==
    [inline_data |-> "inlineData", function_call |-> "functionCall",
     function_response |-> "functionResponse", file_data |-> "fileData",
     executable_code |-> "executableCode",
     code_execution_result |-> "codeExecutionResult",
     video_metadata |-> "videoMetadata"]

RequestKeys ==
    [generation_config |-> "generationConfig",
     system_instruction |-> "systemInstruction",
     safety_settings |-> "safetySettings"]

FirstPartJson(request) ==
    ValueOf(ValueOf(request, "contents").e[1], "parts").e[1]

\* C16: a serialized request holds its generation config, system
\* instruction and safety settings under generationConfig,
\* systemInstruction and safetySettings, and a serialized part holds its
\* payload under inlineData, functionCall, functionResponse, fileData,
\* executableCode, codeExecutionResult or videoMetadata.
RequestKeysCamelCase ==
    (value # None /\ json # None) =>
        /\ \A f \in DOMAIN RequestKeys :
               value.some[f] # None => RequestKeys[f] \in Keys(json.some)
        /\ \A f \in DOMAIN PayloadKeys :
               value.some.contents[1].parts[1][f] # None
                   => PayloadKeys[f] \in Keys(FirstPartJson(json.some))

HasCamelCaseKeys(b) ==
    /\ {"promptFeedback", "usageMetadata"} \subseteq Keys(b)
    /\ {"finishReason", "safetyRatings"} \subseteq Keys(ValueOf(b, "candidates").e[1])

\* C17: a response body whose candidate carries finishReason and
\* safetyRatings and which carries promptFeedback and usageMetadata with
\* the three token counts decodes to an envelope holding these values.
ResponseKeysCamelCase ==
    (json # None /\ envelope # None /\ envelope.some.ok /\ HasCamelCaseKeys(json.some)) =>
        /\ envelope.some.val.candidates[1].finish_reason = Some("STOP")
        /\ envelope.some.val.candidates[1].safety_ratings = <<Rating>>
        /\ envelope.some.val.prompt_feedback
               = Some([block_reason |-> Some("SAFETY"), safety_ratings |-> <<Rating>>])
        /\ envelope.some.val.usage_metadata
               = Some([prompt_token_count |-> Some(10),
                       candidates_token_count |-> Some(20),
                       total_token_count |-> Some(30)])

RECURSIVE NoNull(_)
NoNull(j) ==
    /\ j.k # "null"
    /\ j.k = "obj" => \A i \in DOMAIN j.m : NoNull(j.m[i].val)
    /\ j.k = "arr" => \A i \in DOMAIN j.e : NoNull(j.e[i])

\* The object o has one member for each field of the struct value v that is
\* not an Option or is populated.
OnlyPopulated(S, v, o) ==
    Len(o.m) = Cardinality({i \in DOMAIN Structs[S].fields :
                   Structs[S].fields[i][2] # "skip" \/ v[Structs[S].fields[i][1]] # None})

\* C18: the serialized request, its content, its part and its generation
\* config hold no null, and a member for an Option field only when the
\* field is populated.
NoNullEmission ==
    (value # None /\ json # None) =>
        /\ NoNull(json.some)
        /\ OnlyPopulated("GenerateContentRequest", value.some, json.some)
        /\ OnlyPopulated("Content", value.some.contents[1],
                         ValueOf(json.some, "contents").e[1])
        /\ OnlyPopulated("Part", value.some.contents[1].parts[1], FirstPartJson(json.some))
        /\ value.some.generation_config # None =>
               OnlyPopulated("GenerationConfig", value.some.generation_config.some,
                             json.some.m[2].val)

NoNullEmissionWitness ==
    /\ value # None
    /\ json # None
    /\ value.some.generation_config = Some(AllNone("GenerationConfig"))
    /\ value.some.system_instruction = None
    /\ value.some.contents[1].parts[1].file_data
           = Some([mime_type |-> None, file_uri |-> "gs://b/o"])
    /\ Len(json.some.m) = 2
    /\ json.some.m[2].val = [k |-> "obj", m |-> <<>>]

\* C19: on every part, has_text() is true exactly when text() gives a
\* value, text() gives the value held in the text slot, the T decoded and
\* not the wire string, into_text() gives the same, and a payload in
\* another slot changes none of them.
TextAccessorsAgree ==
    (envelope # None /\ seen # None) =>
        /\ \A i \in DOMAIN seen.some :
               /\ seen.some[i].has_text = (seen.some[i].text # None)
               /\ seen.some[i].text = envelope.some.val.candidates[1].content.parts[i].text
               /\ seen.some[i].into_text = seen.some[i].text
        /\ \A style \in {"snake_case", "camelCase"} : \A present \in SUBSET OptionalKeys :
           \A t \in {None, Some(TestSchemaToString(Alice)), Some(NotJson)} :
           \A payload \in BOOLEAN : \A more \in BOOLEAN :
               json.some = Body(style, present, t, payload, more) =>
                   /\ seen.some[1].text = TextFor(ty.some, t)
                   /\ more => seen.some[2] = [has_text |-> FALSE, text |-> None,
                                              into_text |-> None]

TextAccessorsAgreeWitness ==
    /\ TypeIs("TestSchema")
    /\ envelope # None
    /\ seen # None
    /\ Len(seen.some) = 2
    /\ seen.some[1] = [has_text |-> TRUE, text |-> Some(Alice), into_text |-> Some(Alice)]
    /\ envelope.some.val.candidates[1].content.parts[1].inline_data # None
    /\ seen.some[2].has_text = FALSE

(***************************************************************************)
(* Further properties of the builder, checked under SpecBuilder.           *)
(***************************************************************************)
HasSchema(c) == c.response_schema # None \/ c.response_json_schema # None

\* The fields a method assigns.
Touched(method) ==
    IF Some(method) \in SchemaMethods
    THEN {"response_type", "response_schema", "response_json_schema", "response_mime_type"}
    ELSE IF method \in {"text_response", "enum_response"} THEN {"response_mime_type"}
    ELSE IF method = "add_stop_sequence" THEN {"stop_sequences"}
    ELSE IF method = "add_response_modality" THEN {"response_modalities"}
    ELSE {method}

\* C21: the config build() returns holds in every field the value of the
\* builder's field; a field no method of the chain assigned is None, and
\* the MIME type is None unless a schema is attached or text_response() or
\* enum_response() set it.
FaithfulSnapshot ==
    (built # None /\ built.some.ok) =>
        /\ DOMAIN built.some.val = DOMAIN builder.some
        /\ \A f \in DOMAIN builder.some : built.some.val[f] = builder.some[f]
        /\ calls = 0 => built.some.val = Default(built.some.val.response_type)
        /\ calls = 1 => before.some = Default(before.some.response_type)
        /\ calls >= 1 =>
               \A f \in DOMAIN built.some.val \ Touched(last.some) :
                   built.some.val[f] = before.some[f]
        /\ built.some.val.response_mime_type # None =>
               \/ HasSchema(built.some.val)
               \/ /\ built.some.val.response_mime_type \in {Some("TextPlain"), Some("TextEnum")}
                  /\ \/ last \in {Some("text_response"), Some("enum_response")}
                     \/ before.some.response_mime_type = built.some.val.response_mime_type

FaithfulSnapshotWitness ==
    /\ built # None
    /\ built.some.ok
    /\ calls = 2
    /\ built.some.val.response_mime_type = None
    /\ built.some.val.temperature = Some("0.7")
    /\ built.some.val.max_output_tokens = Some(2)
    /\ built.some.val.seed = None

\* C24: every builder of a chain, and every config build() returns, that
\* holds a schema has the MIME type ApplicationJson, also after
\* text_response() or enum_response().
MimeFollowsSchema ==
    /\ (builder # None /\ HasSchema(builder.some)) => IsJson(builder.some)
    /\ (built # None /\ built.some.ok /\ HasSchema(built.some.val)) => IsJson(built.some.val)

\* The value a method other than a schema method leaves in its field.
Assigned(method) ==
    IF method = "text_response" THEN Some("TextPlain")
    ELSE IF method = "enum_response" THEN Some("TextEnum")
    ELSE IF method = "add_stop_sequence"
         THEN Some(Append(ListOf(before.some.stop_sequences), arg.some))
    ELSE IF method = "add_response_modality"
         THEN Some(Append(ListOf(before.some.response_modalities), arg.some))
    ELSE arg

\* C27: a method other than the two schema methods returns the builder it
\* was called on with its own field set from the argument, replacing a
\* value set earlier, and with the response type, both schema slots and
\* every other field as they were.
OneFieldEffect ==
    (last # None /\ last \notin SchemaMethods) =>
        /\ \A f \in Touched(last.some) : builder.some[f] = Assigned(last.some)
        /\ \A f \in DOMAIN builder.some \ Touched(last.some) :
               builder.some[f] = before.some[f]
        /\ DOMAIN builder.some = DOMAIN before.some

OneFieldEffectWitness ==
    /\ calls = 2
    /\ last = Some("temperature")
    /\ arg = Some("0.7")
    /\ before.some.temperature = Some("0.5")
    /\ builder.some.temperature = Some("0.7")
    /\ builder.some.response_type = "TestType2"

(***************************************************************************)
(* Further properties of the codec, checked under SpecCodec.               *)
(***************************************************************************)
\* What an envelope holds besides the texts of its parts.
Metadata(e) ==
    [ candidates |-> [i \in DOMAIN e.candidates |->
          [finish_reason |-> e.candidates[i].finish_reason,
           safety_ratings |-> e.candidates[i].safety_ratings,
           role |-> e.candidates[i].content.role,
           parts |-> [p \in DOMAIN e.candidates[i].content.parts |->
                          [e.candidates[i].content.parts[p] EXCEPT !.text = None]],
           has_text |-> [p \in DOMAIN e.candidates[i].content.parts |->
                             e.candidates[i].content.parts[p].text # None]]],
      prompt_feedback |-> e.prompt_feedback,
      usage_metadata |-> e.usage_metadata ]

SameMetadata(typed, plain) == plain.ok /\ Metadata(typed.val) = Metadata(plain.val)

\* C22: a body that decodes for a structured T decodes for String too, and
\* the two envelopes agree in finish reasons, safety ratings, prompt
\* feedback, usage metadata and everything else but the texts of the parts.
TypedKeepsMetadata ==
    (json # None /\ envelope # None /\ envelope.some.ok) =>
        SameMetadata(envelope.some,
                     DeserializeValue("String", "GenerateContentResponse", "one", json.some))

TypedKeepsMetadataWitness ==
    /\ TypeIs("TestSchema")
    /\ envelope # None
    /\ envelope.some.ok
    /\ envelope.some.val.candidates[1].finish_reason = Some("STOP")
    /\ envelope.some.val.candidates[1].safety_ratings = <<Rating>>
    /\ envelope.some.val.prompt_feedback # None
    /\ envelope.some.val.usage_metadata
           = Some([prompt_token_count |-> Some(10),
                   candidates_token_count |-> Some(20),
                   total_token_count |-> Some(30)])
    /\ envelope.some.val.candidates[1].content.parts[1].text = Some(Alice)

\* C28: a text field whose wire value does not start a string literal fails
\* to decode for String and for TestSchema, and a TestSchema is decoded only
\* from a string literal that holds its JSON.
WireTextIsStringLiteral ==
    (wire # None /\ decoded # None) =>
        /\ (wire.some = <<>> \/ Head(wire.some) # Quote) => decoded.some = Fail
        /\ wire.some \in {TestSchemaToString(Alice), <<"1">>,
                          <<"[">> \o SerializeStr(<<"a">>) \o <<",", "1", "]">>}
               => decoded.some = Fail
        /\ (decoded.some.ok /\ TypeIs("TestSchema") /\ inner = None) =>
               /\ wire_str # None
               /\ wire.some = SerializeStr(wire_str.some)
               /\ decoded.some = from_str("TestSchema", wire_str.some)

WireTextIsStringLiteralWitness ==
    /\ TypeIs("TestSchema")
    /\ wire = Some(TestSchemaToString(Alice))
    /\ decoded = Some(Fail)

Slots ==
    {"text", "inline_data", "function_call", "function_response", "file_data",
     "executable_code", "code_execution_result", "video_metadata"}

FirstPart(e) == e.val.candidates[1].content.parts[1]

Shows(text, field, v) ==
    \E k \in 1..(Len(text) - 4) :
        SubSeq(text, k, k + 4) = <<field, ": ", Quote, v, Quote>>

\* C23: the Debug rendering of a GeminiConfig shows [REDACTED] for api_key
\* and the config's model and base URL, holds the key nowhere, and is the
\* same for two configs that differ in the key alone.
ApiKeyRedacted ==
    \A i \in DOMAIN rendered :
        /\ Shows(rendered[i], "api_key", "[REDACTED]")
        /\ Shows(rendered[i], "model", configs[i].model)
        /\ Shows(rendered[i], "base_url", configs[i].base_url)
        /\ \A k \in DOMAIN rendered[i] : rendered[i][k] # configs[i].api_key
        /\ \A j \in DOMAIN rendered :
               (/\ configs[i].model = configs[j].model
                /\ configs[i].base_url = configs[j].base_url)
                   => rendered[i] = rendered[j]

ApiKeyRedactedWitness ==
    /\ Len(rendered) = 2
    /\ configs[1].api_key # configs[2].api_key
    /\ configs[1].model = configs[2].model
    /\ rendered[1] = rendered[2]
    /\ Shows(rendered[2], "model", "gemini-1.5-flash")

\* C25: every GenerationConfig<T> for a T other than String that a request
\* holds, whether build() or GenerationConfig::default() made it, has a
\* schema.
SchemaPresentEverywhere ==
    (/\ req # None
     /\ req.some.response_type # "String"
     /\ req.some.value.generation_config # None)
        => HasSchema(req.some.value.generation_config.some)

\* C26: no request for a T other than String goes out without a schema,
\* the request without a generation config included.
NoSchemalessSend ==
    \A i \in DOMAIN trace :
        (trace[i].op = "POST" /\ req.some.response_type # "String") =>
            /\ req.some.value.generation_config # None
            /\ req.some.value.generation_config.some.response_schema # None
                   \/ req.some.value.generation_config.some.response_json_schema # None

Rank(op) == IF op = "POST" THEN 1 ELSE IF op = "status" THEN 2 ELSE 3

\* One POST, then the status, then the body, each at most once; the result
\* is the error of the step that failed or the envelope decoded.
OneAttemptInOrder ==
    /\ pc = "idle" => trace = <<>> /\ result = None
    /\ pc # "idle" =>
           /\ trace # <<>>
           /\ trace[1].op = "POST"
           /\ \A i, j \in DOMAIN trace : i < j => Rank(trace[i].op) < Rank(trace[j].op)
    /\ (pc = "done") = (result # None)
    /\ result = Some(Err("send")) => Len(trace) = 1
    /\ result = Some(Err("status")) => Len(trace) = 2 /\ trace[2].op = "status"
    /\ result = Some(Err("decode")) =>
           /\ Len(trace) = 3
           /\ ~DeserializeValue(req.some.response_type, "GenerateContentResponse",
                                "one", http.some.body).ok
    /\ (result # None /\ result.some.ok) =>
           /\ Len(trace) = 3
           /\ result.some = DeserializeValue(req.some.response_type,
                                "GenerateContentResponse", "one", http.some.body)

\* C30 as stated: one POST, then the status, then the body; Err without a
\* retry when the send fails, when the status is not a success, the body
\* then not being decoded, or when the body does not decode; Ok only with
\* the envelope decoded.
OneAttemptPerCall ==
    /\ OneAttemptInOrder
    /\ (Len(trace) >= 2 /\ trace[2].status \notin 200..299) =>
           /\ Len(trace) = 2
           /\ result = Some(Err("status"))

\* C30, amended: the status that ends the call with Err, the body not
\* decoded, is a client or server error (400 to 599); with any other
\* status, 2xx or not, the call goes on to decode the body.
OneAttemptPerCallOnError ==
    /\ OneAttemptInOrder
    /\ (Len(trace) >= 2 /\ trace[2].status \in 400..599) =>
           /\ Len(trace) = 2
           /\ result = Some(Err("status"))
    /\ (Len(trace) >= 2 /\ trace[2].status \notin 400..599) =>
           /\ pc \in {"reading", "done"}
           /\ pc = "done" => Len(trace) = 3 /\ result # Some(Err("status"))

OneAttemptPerCallOnErrorWitness ==
    /\ pc = "done"
    /\ req.some.response_type = "TestSchema"
    /\ Len(trace) = 3
    /\ trace[2].status = 200
    /\ result # None
    /\ result.some.ok
    /\ result.some.val.candidates[1].content.parts[1].text = Some(Alice)

====
